---------------------------- MODULE Spec2Model ----------------------------
(***************************************************************************)
(* Model of lxc_vps_bot.py: the credit ledger (table users), the instance  *)
(* registry (table vps), the LXC helpers (run_lxc_cmd, create_container,   *)
(* delete_container, action_container) and the bot commands that drive     *)
(* them.  Every command is a coroutine on one asyncio event loop: the code *)
(* between two awaits runs atomically, and other commands run while a      *)
(* command is suspended on an await.                                       *)
(*                                                                         *)
(* Text is modelled as a sequence of one-character strings, so that        *)
(* lower(), NAME_RE.sub, shlex.quote, " ".join and substring tests are     *)
(* computed and not assumed.                                               *)
(***************************************************************************)
EXTENDS Integers, Sequences, FiniteSets, TLC

VARIABLES
    users,      \* table users: user_id -> credits, for the user_ids that have a row
    vps,        \* table vps: the set of rows
    next_id,    \* the next AUTOINCREMENT id of table vps
    now,        \* seconds elapsed on the UTC clock since the bot started
    PLANS,      \* the plan catalog loaded from plans.json: key -> plan
    env,        \* what run_lxc_cmd finds on the host: lxc binary, FAKE flag, kernel
    workload,   \* this run: the kinds of command issued and how many suspend
    tasks,      \* the command invocations: arguments, locals and position
    admin_ops,  \* number of adminc/adminrc commands handled so far
    serial,     \* per user: the balance got by applying the committed ledger
                \* adjustments one at a time, in commit order, by their definitions
    named       \* per id of table vps: the strftime text the command that
                \* inserted the row had put at the end of the container name

vars == <<users, vps, next_id, now, PLANS, env, workload, tasks, admin_ops, serial, named>>

-----------------------------------------------------------------------------
(* Bounds of the model *)

\* number of command invocations that suspend on an await (buywc, create, ...)
MaxTasks == 2
\* number of adminc / adminrc commands
MaxAdminOps == 2
\* number of one-second ticks of the clock
MaxTime == 1
\* users are the ids 1..MaxUser
MaxUser == 2

-----------------------------------------------------------------------------
(* Text *)

LowerChars == {"a","b","c","d","e","f","g","h","i","j","k","l","m",
               "n","o","p","q","r","s","t","u","v","w","x","y","z"}
UpperChars == {"A","B","C","D","E","F","G","H","I","J","K","L","M",
               "N","O","P","Q","R","S","T","U","V","W","X","Y","Z"}
DigitChars == {"0","1","2","3","4","5","6","7","8","9"}

s_user == <<"u","s","e","r">>
s_custom == <<"c","u","s","t","o","m">>
s_intel == <<"i","n","t","e","l">>
s_all == <<"a","l","l">>
s_running == <<"r","u","n","n","i","n","g">>
s_launch == <<"l","a","u","n","c","h">>
s_config == <<"c","o","n","f","i","g">>
s_set == <<"s","e","t">>
s_limits_memory == <<"l","i","m","i","t","s",".","m","e","m","o","r","y">>
s_limits_cpu == <<"l","i","m","i","t","s",".","c","p","u">>
s_image == <<"i","m","a","g","e","s",":","u","b","u","n","t","u","/","2","2",".","0","4">>
s_default == <<"d","e","f","a","u","l","t">>
s_dash_p == <<"-","p">>
s_force == <<"-","-","f","o","r","c","e">>
s_start == <<"s","t","a","r","t">>
s_stop == <<"s","t","o","p">>
s_restart == <<"r","e","s","t","a","r","t">>
s_info == <<"i","n","f","o">>
s_delete == <<"d","e","l","e","t","e">>
s_create == <<"c","r","e","a","t","e">>
s_deleted == <<"d","e","l","e","t","e","d">>
s_created == <<"c","r","e","a","t","e","d">>
s_OK == <<"O","K">>
s_fake == <<"(","f","a","k","e",")"," ">>
s_invalid_action == <<"i","n","v","a","l","i","d"," ","a","c","t","i","o","n">>

\* LXC_PATH = CONFIG.get("LXC_PATH", "/usr/bin/lxc")
LXC_PATH == <<"/","u","s","r","/","b","i","n","/","l","x","c">>

\* str.lower() of one character
LowerChar(ch) ==
    CASE ch = "A" -> "a" [] ch = "B" -> "b" [] ch = "C" -> "c" [] ch = "D" -> "d"
      [] ch = "E" -> "e" [] ch = "F" -> "f" [] ch = "G" -> "g" [] ch = "H" -> "h"
      [] ch = "I" -> "i" [] ch = "J" -> "j" [] ch = "K" -> "k" [] ch = "L" -> "l"
      [] ch = "M" -> "m" [] ch = "N" -> "n" [] ch = "O" -> "o" [] ch = "P" -> "p"
      [] ch = "Q" -> "q" [] ch = "R" -> "r" [] ch = "S" -> "s" [] ch = "T" -> "t"
      [] ch = "U" -> "u" [] ch = "V" -> "v" [] ch = "W" -> "w" [] ch = "X" -> "x"
      [] ch = "Y" -> "y" [] ch = "Z" -> "z" [] OTHER -> ch

\* str.lower()
lower(s) == [i \in 1..Len(s) |-> LowerChar(s[i])]

\* NAME_RE = re.compile(r"[^a-z0-9-]"); NAME_RE.sub("", s)
NameChar(ch) == ch \in LowerChars \cup DigitChars \cup {"-"}
NAME_RE_sub(s) == SelectSeq(s, NameChar)

DigitOf(d) ==
    CASE d = 0 -> "0" [] d = 1 -> "1" [] d = 2 -> "2" [] d = 3 -> "3" [] d = 4 -> "4"
      [] d = 5 -> "5" [] d = 6 -> "6" [] d = 7 -> "7" [] d = 8 -> "8" [] d = 9 -> "9"

RECURSIVE NatToStr(_)
NatToStr(n) == IF n < 10 THEN <<DigitOf(n)>> ELSE NatToStr(n \div 10) \o <<DigitOf(n % 10)>>

\* str(n) of an int
IntToStr(n) == IF n < 0 THEN <<"-">> \o NatToStr(0 - n) ELSE NatToStr(n)

\* "%02d"
TwoDigits(n) == <<DigitOf((n \div 10) % 10), DigitOf(n % 10)>>

RECURSIVE Flatten(_)
Flatten(ss) == IF ss = <<>> THEN <<>> ELSE Head(ss) \o Flatten(Tail(ss))

\* " ".join(words)
RECURSIVE Join(_)
Join(words) ==
    IF words = <<>> THEN <<>>
    ELSE IF Len(words) = 1 THEN Head(words)
    ELSE Head(words) \o <<" ">> \o Join(Tail(words))

\* shlex.quote(s): s itself when it is non-empty and holds only the characters
\* [a-zA-Z0-9_@%+=:,./-]; otherwise s in single quotes with each ' escaped
ShellSafeChar(ch) ==
    ch \in LowerChars \cup UpperChars \cup DigitChars
           \cup {"_","@","%","+","=",":",",",".","/","-"}
shlex_quote(s) ==
    IF s = <<>> THEN <<"'","'">>
    ELSE IF \A i \in 1..Len(s) : ShellSafeChar(s[i]) THEN s
    ELSE <<"'">>
         \o Flatten([i \in 1..Len(s) |->
                IF s[i] = "'" THEN <<"'","\"","'","\"","'">> ELSE <<s[i]>>])
         \o <<"'">>

\* Python's `sub in s` for strings
Contains(s, sub) ==
    \E i \in 0..(Len(s) - Len(sub)) : SubSeq(s, i + 1, i + Len(sub)) = sub

\* Python's `a or b` for strings: the empty string is falsy
StrOr(a, b) == IF a = <<>> THEN b ELSE a

-----------------------------------------------------------------------------
(* Inputs and configuration *)

Users == 1..MaxUser

\* the members for whom is_admin_ctx(ctx) is true
Admins == {1}

s_free == <<"f","r","e","e">>
s_basic == <<"b","a","s","i","c">>
s_Basic == <<"B","a","s","i","c">>
s_gold == <<"g","o","l","d">>
s_Intel == <<"I","n","t","e","l">>

\* plans.json as loaded at start: key -> ram_mb, cpu, disk_gb, price
plans_json ==
    [k \in {s_free, s_basic} |->
        IF k = s_free THEN [ram_mb |-> 512, cpu |-> 1, disk_gb |-> 5, price |-> 0]
                      ELSE [ram_mb |-> 1024, cpu |-> 2, disk_gb |-> 10, price |-> 2]]

\* what users type as the plan and arch arguments of !buywc and !giveplan
PlanInputs == {s_free, s_Basic, s_gold}
ArchInputs == {s_Intel}

\* the amount argument of !adminc (amount:int, any integer converts)
AddAmounts == {-1, 2}
\* the amount argument of !adminrc (amount:str)
RemoveInputs == {s_all, <<"1">>, <<"x">>}

\* the hosts the bot can run on: whether LXC_PATH exists, FAKE_MODE_IF_NO_LXC,
\* and whether /proc/version contains "microsoft"
RealHost == [lxc_exists |-> TRUE,  FAKE_IF_NO_LXC |-> FALSE, microsoft |-> FALSE]
FakeHost == [lxc_exists |-> FALSE, FAKE_IF_NO_LXC |-> TRUE,  microsoft |-> FALSE]
WslHost  == [lxc_exists |-> TRUE,  FAKE_IF_NO_LXC |-> FALSE, microsoft |-> TRUE]
BareHost == [lxc_exists |-> FALSE, FAKE_IF_NO_LXC |-> FALSE, microsoft |-> FALSE]

\* the kinds of command the members issue in one run ("tick": the clock
\* passes a second boundary during the run)
LedgerLoad == {"buywc", "adminc", "adminrc"}
PlanLoad   == {"buywc", "giveplan", "editplans"}
CreateLoad == {"buywc", "create", "giveplan", "tick"}
ManageLoad == {"create", "manage", "delete_vps"}
OwnerLoad  == {"adminc", "create", "manage"}

\* the runs explored: a host, the kinds of command issued, and how many
\* commands more than MaxTasks suspend on an await
Runs ==
    { [env |-> RealHost, cmds |-> LedgerLoad, extra |-> 0],
      [env |-> FakeHost, cmds |-> LedgerLoad, extra |-> 0],
      [env |-> BareHost, cmds |-> LedgerLoad, extra |-> 0],
      [env |-> FakeHost, cmds |-> PlanLoad,   extra |-> 0],
      [env |-> RealHost, cmds |-> CreateLoad, extra |-> 0],
      [env |-> WslHost,  cmds |-> CreateLoad, extra |-> 0],
      [env |-> RealHost, cmds |-> ManageLoad, extra |-> 1],
      [env |-> FakeHost, cmds |-> ManageLoad, extra |-> 1],
      [env |-> WslHost,  cmds |-> ManageLoad, extra |-> 1],
      [env |-> BareHost, cmds |-> ManageLoad, extra |-> 1],
      [env |-> RealHost, cmds |-> OwnerLoad,  extra |-> 0] }

\* the (returncode, stdout, stderr) a real lxc process can exit with
s_out == <<"o","u","t">>
s_err == <<"e","r","r">>
RealResults ==
    { [rc |-> 0, out |-> s_out, err |-> <<>>],
      [rc |-> 1, out |-> <<>>,  err |-> s_err],
      [rc |-> 1, out |-> s_out, err |-> <<>>] }

-----------------------------------------------------------------------------
(* Ledger: table users *)

\* get_credits: SELECT credits ...; r[0] if r else 0
get_credits(tbl, user_id) ==
    IF user_id \in DOMAIN tbl THEN tbl[user_id] ELSE 0

\* faulty variant: the upsert overwrites: ... DO UPDATE SET credits = excluded.credits
add_credits_overwrite(tbl, user_id, amount) ==
    [u \in DOMAIN tbl \cup {user_id} |-> IF u = user_id THEN amount ELSE tbl[u]]

\* add_credits: INSERT ... ON CONFLICT(user_id) DO UPDATE SET credits = credits + ?
add_credits(tbl, user_id, amount) ==
    IF user_id \in DOMAIN tbl
    THEN [tbl EXCEPT ![user_id] = @ + amount]
    ELSE [u \in DOMAIN tbl \cup {user_id} |-> IF u = user_id THEN amount ELSE tbl[u]]

\* Python's max(a, b)
max(a, b) == IF b > a THEN b ELSE a

\* faulty variant: no clamp: new = r[0] - amount
remove_credits_unclamped(tbl, user_id, amount) ==
    IF user_id \notin DOMAIN tbl
    THEN [ok |-> FALSE, tbl |-> tbl]
    ELSE [ok |-> TRUE, tbl |-> [tbl EXCEPT ![user_id] = @ - amount]]

\* remove_credits: the returned bool and the table after it
remove_credits(tbl, user_id, amount) ==
    IF user_id \notin DOMAIN tbl
    THEN [ok |-> FALSE, tbl |-> tbl]
    ELSE [ok |-> TRUE, tbl |-> [tbl EXCEPT ![user_id] = max(0, @ - amount)]]

\* cmd_adminrc, amount == "all": UPDATE users SET credits=0 WHERE user_id=?
zero_credits(tbl, user_id) ==
    [u \in DOMAIN tbl |-> IF u = user_id THEN 0 ELSE tbl[u]]

-----------------------------------------------------------------------------
(* Registry: table vps *)

\* create_vps_record: the inserted row; cur.lastrowid is its id
vps_row(id, user_id, container_name, plan, ram, cpu, arch, created_at) ==
    [id |-> id, user_id |-> user_id, container_name |-> container_name,
     plan |-> plan, ram_mb |-> ram, cpu_cores |-> cpu, arch |-> arch,
     status |-> s_running, created_at |-> created_at]

\* get_vps_by_id: the rows SELECT * FROM vps WHERE id = ? finds (none or one)
get_vps_by_id(tbl, vps_id) == {r \in tbl : r.id = vps_id}

\* get_user_vps: SELECT * FROM vps WHERE user_id = ?
get_user_vps(tbl, user_id) == {r \in tbl : r.user_id = user_id}

\* delete_vps_record: DELETE FROM vps WHERE id = ?
delete_vps_record(tbl, vps_id) == {r \in tbl : r.id # vps_id}

-----------------------------------------------------------------------------
(* Container names *)

\* the bot starts on 2026-11-05 at 12:59:59 UTC; `clock` seconds later
\* datetime.utcnow().strftime("%y%m%d%H%M%S") gives this text (same day)
StartSecondOfDay == 12 * 3600 + 59 * 60 + 59
strftime(clock) ==
    LET sod == StartSecondOfDay + clock
    IN  <<"2","6","1","1","0","5">>
        \o TwoDigits(sod \div 3600) \o TwoDigits((sod \div 60) % 60) \o TwoDigits(sod % 60)

\* faulty variant: the name has no suffix
make_container_name_unsuffixed(user_id, plan, clock) ==
    NAME_RE_sub(lower(s_user \o IntToStr(user_id) \o <<"-">> \o plan))

\* base = f"user{id}-{plan}"; safe = NAME_RE.sub("", base.lower());
\* container_name = f"{safe}-{suffix}"
make_container_name(user_id, plan, clock) ==
    NAME_RE_sub(lower(s_user \o IntToStr(user_id) \o <<"-">> \o plan))
    \o <<"-">> \o strftime(clock)

-----------------------------------------------------------------------------
(* Command invocations *)

Tid == 1..(MaxTasks + 1)

IdleTask ==
    [cmd |-> "none", pc |-> "idle", proc |-> "none",
     author |-> 0, user |-> 0, plan |-> <<>>, arch |-> <<>>,
     cost |-> 0, user_credits |-> 0, container_name |-> <<>>,
     ram_mb |-> 0, cpu_cores |-> 0, vps_id |-> 0, action |-> <<>>,
     rc |-> 0, out |-> <<>>, ok |-> "none", msg |-> <<>>, reply |-> "none",
     debit |-> "none", args |-> <<>>, calls |-> <<>>, spawned |-> 0,
     bal0 |-> 0, id0 |-> 0, alone |-> TRUE, raced |-> FALSE, dropped |-> 0,
     suffix |-> <<>>]

\* a command that has been invoked and has not sent its last message
InFlight(tk) == tk.pc \notin {"idle", "done"}

\* a command that has sent its last message: what stays of it is the command
\* (and the action of !manage), what it replied, the (ok, msg) its LXC helper
\* returned, the return code that helper decided on, whether a call whose
\* result the helper drops returned a nonzero code, and what remove_credits
\* returned
Finished(tk, reply, ok, msg, debit) ==
    [IdleTask EXCEPT !.cmd = tk.cmd, !.action = tk.action, !.pc = "done",
                     !.reply = reply, !.ok = ok, !.msg = msg, !.debit = debit,
                     !.rc = tk.rc, !.dropped = tk.dropped]

\* a call returned `res` and the helper does not look at it
Dropped(tk, res) == [tk EXCEPT !.dropped = IF res.rc # 0 THEN 1 ELSE @]

\* task slots are taken in order
CanStart(t, cmd) ==
    /\ cmd \in workload.cmds
    /\ t <= workload.tasks
    /\ tasks[t].pc = "idle"
    /\ \A x \in Tid : x < t => tasks[x].pc # "idle"

\* faulty variant: everyone passes
is_admin_ctx_everyone(author) == TRUE

\* is_admin_ctx(ctx)
is_admin_ctx(author) == author \in Admins

\* the charged creates of user u that are in flight stop being alone with
\* their user when another command acts on u
NotAlone(ts, u, self) ==
    [x \in DOMAIN ts |->
        IF x # self /\ ts[x].cmd = "buywc" /\ InFlight(ts[x]) /\ ts[x].author = u
        THEN [ts[x] EXCEPT !.alone = FALSE]
        ELSE ts[x]]

-----------------------------------------------------------------------------
(* run_lxc_cmd *)

\* faulty variant: the /proc/version test is left out
FakeMode_no_kernel_test(e) == ~e.lxc_exists /\ e.FAKE_IF_NO_LXC

\* the condition of the fake branch of run_lxc_cmd
FakeMode(e) == (~e.lxc_exists /\ e.FAKE_IF_NO_LXC) \/ e.microsoft

\* what a call does, for the list `calls` of the calls a command has made:
\* the lxc subcommand, or the key set by `config set`
CallName(args) == IF args[2] = s_config THEN args[5] ELSE args[2]

\* run_lxc_cmd(args) up to its await: asyncio.sleep in fake mode, a started
\* process otherwise; create_subprocess_exec raises FileNotFoundError when
\* the binary is absent, and the command ends in on_command_error
run_lxc_cmd(tk, args, pc) ==
    IF FakeMode(env)
    THEN [tk EXCEPT !.pc = pc, !.proc = "sleep", !.args = args,
                    !.calls = Append(@, CallName(args))]
    ELSE IF env.lxc_exists
    THEN [tk EXCEPT !.pc = pc, !.proc = "running", !.args = args,
                    !.calls = Append(@, CallName(args)), !.spawned = @ + 1]
    ELSE Finished(tk, "exception", "none", <<>>, "none")

\* cmd_str = " ".join(shlex.quote(a) for a in args)
cmd_str(args) == Join([i \in 1..Len(args) |-> shlex_quote(args[i])])

\* what run_lxc_cmd returns once its await is over
LxcResults(tk) ==
    IF tk.proc = "sleep"
    THEN {[rc |-> 0, out |-> s_fake \o cmd_str(tk.args), err |-> <<>>]}
    ELSE RealResults

\* the await in run_lxc_cmd is over: the sleep of fake mode has passed, or
\* the process has exited and proc.communicate() returned
Returning(tk, pc) == tk.pc = pc /\ tk.proc \in {"sleep", "running"}

launch_args(name) == <<LXC_PATH, s_launch, s_image, name, s_dash_p, s_default>>
memory_args(name, ram_mb) ==
    <<LXC_PATH, s_config, s_set, name, s_limits_memory, IntToStr(ram_mb * 1024 * 1024)>>
cpu_args(name, cpu_cores) ==
    <<LXC_PATH, s_config, s_set, name, s_limits_cpu, IntToStr(cpu_cores)>>
stop_args(name) == <<LXC_PATH, s_stop, name, s_force>>
delete_args(name) == <<LXC_PATH, s_delete, name>>
action_args(name, action) == <<LXC_PATH, action, name>>

-----------------------------------------------------------------------------
(* The ledger adjustments by their definitions: credit adds to the balance *)
(* or starts it, debit clamps at 0 and does nothing without a row, zero    *)
(* leaves 0.  `serial` applies them one at a time in commit order.         *)

RefCredit(tbl, u, a) ==
    [x \in DOMAIN tbl \cup {u} |->
        IF x # u THEN tbl[x] ELSE IF u \in DOMAIN tbl THEN tbl[u] + a ELSE a]
RefDebit(tbl, u, a) ==
    [x \in DOMAIN tbl |->
        IF x # u THEN tbl[x] ELSE IF tbl[u] - a < 0 THEN 0 ELSE tbl[u] - a]
RefZero(tbl, u) == [x \in DOMAIN tbl |-> IF x = u THEN 0 ELSE tbl[x]]

-----------------------------------------------------------------------------
(* Init *)

Init ==
    /\ users = <<>>
    /\ vps = {}
    /\ next_id = 1
    /\ now = 0
    /\ PLANS = plans_json
    /\ \E run \in Runs :
         /\ env = run.env
         /\ workload = [cmds |-> run.cmds, tasks |-> MaxTasks + run.extra]
    /\ tasks = [t \in Tid |-> IdleTask]
    /\ admin_ops = 0
    /\ named = <<>>
    /\ serial = <<>>

\* the clock advances by a second
Tick ==
    /\ "tick" \in workload.cmds
    /\ now < MaxTime
    /\ now' = now + 1
    /\ UNCHANGED <<users, vps, next_id, PLANS, env, workload, tasks, admin_ops, serial, named>>

-----------------------------------------------------------------------------
(* !buywc plan arch *)

\* faulty variant: the balance check is left out
Sufficient_unchecked(user_credits, cost) == TRUE

\* line 210: `if user_credits < cost: return`
Sufficient(user_credits, cost) == ~(user_credits < cost)

NewBuywc(author, plan, arch) ==
    [IdleTask EXCEPT !.cmd = "buywc", !.author = author, !.user = author,
                     !.plan = plan, !.arch = arch,
                     !.bal0 = get_credits(users, author), !.id0 = next_id]

\* lines 204-207: the plan is not in PLANS
BuywcUnknownPlan(t, author, plan_in, arch_in) ==
    /\ CanStart(t, "buywc")
    /\ lower(plan_in) \notin DOMAIN PLANS
    /\ tasks' = [NotAlone(tasks, author, t) EXCEPT ![t] =
                    Finished(NewBuywc(author, lower(plan_in), lower(arch_in)),
                             "unknown_plan", "none", <<>>, "none")]
    /\ UNCHANGED <<users, vps, next_id, now, PLANS, env, workload, admin_ops, serial, named>>

\* lines 208-211: the balance is below the price
BuywcInsufficient(t, author, plan_in, arch_in) ==
    /\ CanStart(t, "buywc")
    /\ lower(plan_in) \in DOMAIN PLANS
    /\ LET plan == lower(plan_in)
           cost == PLANS[plan].price
           user_credits == get_credits(users, author)
       IN  /\ ~Sufficient(user_credits, cost)
           /\ tasks' = [NotAlone(tasks, author, t) EXCEPT ![t] =
                    Finished(NewBuywc(author, plan, lower(arch_in)),
                             "insufficient", "none", <<>>, "none")]
    /\ UNCHANGED <<users, vps, next_id, now, PLANS, env, workload, admin_ops, serial, named>>

\* lines 208-216: the balance suffices; the name is made and the command
\* suspends on the "Creating container" message
BuywcAnnounce(t, author, plan_in, arch_in) ==
    /\ CanStart(t, "buywc")
    /\ lower(plan_in) \in DOMAIN PLANS
    /\ LET plan == lower(plan_in)
           cost == PLANS[plan].price
           user_credits == get_credits(users, author)
       IN  /\ Sufficient(user_credits, cost)
           /\ tasks' = [NotAlone(tasks, author, t) EXCEPT ![t] =
                    [NewBuywc(author, plan, lower(arch_in)) EXCEPT
                        !.cost = cost, !.user_credits = user_credits,
                        !.container_name = make_container_name(author, plan, now),
                        !.suffix = strftime(now),
                        !.pc = "send"]]
    /\ UNCHANGED <<users, vps, next_id, now, PLANS, env, workload, admin_ops, serial, named>>

-----------------------------------------------------------------------------
(* !create user ram_mb cpu_cores   and   !giveplan user plan_name *)

RamInputs == {256}
CpuInputs == {4}

\* cmd_create line 258, cmd_giveplan line 314: not an admin
CreateUnauthorized(t, author, user) ==
    /\ ~is_admin_ctx(author)
    /\ \E cmd \in {"create", "giveplan"} :
         /\ CanStart(t, cmd)
         /\ tasks' = [tasks EXCEPT ![t] =
                        Finished([IdleTask EXCEPT !.cmd = cmd],
                                 "unauthorized", "none", <<>>, "none")]
    /\ UNCHANGED <<users, vps, next_id, now, PLANS, env, workload, admin_ops, serial, named>>

\* cmd_create lines 258-263
CreateAnnounce(t, author, user, ram_mb, cpu_cores) ==
    /\ CanStart(t, "create")
    /\ is_admin_ctx(author)
    /\ tasks' = [NotAlone(tasks, user, t) EXCEPT ![t] =
                    [IdleTask EXCEPT !.cmd = "create", !.author = author, !.user = user,
                        !.plan = s_custom, !.arch = s_intel,
                        !.ram_mb = ram_mb, !.cpu_cores = cpu_cores,
                        !.container_name = make_container_name(user, s_custom, now),
                        !.suffix = strftime(now),
                        !.pc = "send"]]
    /\ UNCHANGED <<users, vps, next_id, now, PLANS, env, workload, admin_ops, serial, named>>

\* cmd_giveplan lines 314-316: the plan is not in PLANS
GiveplanUnknownPlan(t, author, user, plan_in) ==
    /\ CanStart(t, "giveplan")
    /\ is_admin_ctx(author)
    /\ lower(plan_in) \notin DOMAIN PLANS
    /\ tasks' = [tasks EXCEPT ![t] =
                    Finished([IdleTask EXCEPT !.cmd = "giveplan"],
                             "unknown_plan", "none", <<>>, "none")]
    /\ UNCHANGED <<users, vps, next_id, now, PLANS, env, workload, admin_ops, serial, named>>

\* cmd_giveplan lines 314-323
GiveplanAnnounce(t, author, user, plan_in) ==
    /\ CanStart(t, "giveplan")
    /\ is_admin_ctx(author)
    /\ lower(plan_in) \in DOMAIN PLANS
    /\ tasks' = [NotAlone(tasks, user, t) EXCEPT ![t] =
                    [IdleTask EXCEPT !.cmd = "giveplan", !.author = author, !.user = user,
                        !.plan = lower(plan_in), !.arch = s_intel,
                        !.container_name = make_container_name(user, lower(plan_in), now),
                        !.suffix = strftime(now),
                        !.pc = "send"]]
    /\ UNCHANGED <<users, vps, next_id, now, PLANS, env, workload, admin_ops, serial, named>>

-----------------------------------------------------------------------------
(* create_container *)

\* lines 217, 264, 324 with 136-138: the arguments are evaluated, and
\* create_container runs up to the await of its launch call
CallCreateContainer(t) ==
    /\ tasks[t].pc = "send"
    /\ tasks[t].cmd \in {"buywc", "create", "giveplan"}
    /\ LET tk == tasks[t]
           ram == IF tk.cmd = "create" THEN tk.ram_mb ELSE PLANS[tk.plan].ram_mb
           cpu == IF tk.cmd = "create" THEN tk.cpu_cores ELSE PLANS[tk.plan].cpu
       IN  tasks' = [tasks EXCEPT ![t] =
                run_lxc_cmd([tk EXCEPT !.ram_mb = ram, !.cpu_cores = cpu],
                            launch_args(tk.container_name), "launch")]
    /\ UNCHANGED <<users, vps, next_id, now, PLANS, env, workload, admin_ops, serial, named>>

\* what the three create commands do when create_container returned
\* (False, msg): lines 218-219, 265, 325
AfterCreateFailed(tk, msg) == Finished(tk, "failed", "false", msg, "none")

\* faulty variant: the failed create costs the target user a credit
users_after_failed_create_charged(tbl, tk) == add_credits(tbl, tk.user, 0 - 1)

\* lines 218-219, 265, 325: `if not ok: return ...` leaves before the debit
\* and before create_vps_record; tables users and vps after it
users_after_failed_create(tbl, tk) == tbl

\* faulty variant: the return is missing and the row is inserted all the same
vps_after_failed_create_inserted(tbl, tk) ==
    tbl \cup {vps_row(next_id, tk.user, tk.container_name, tk.plan,
                      tk.ram_mb, tk.cpu_cores, tk.arch, now)}

vps_after_failed_create(tbl, tk) == tbl

\* lines 138-140: the launch call returned a nonzero code
LaunchFailed(t) ==
    /\ Returning(tasks[t], "launch")
    /\ \E res \in LxcResults(tasks[t]) :
         /\ res.rc # 0
         /\ tasks' = [tasks EXCEPT ![t] =
                AfterCreateFailed([@ EXCEPT !.rc = res.rc], StrOr(res.err, res.out))]
    /\ users' = users_after_failed_create(users, tasks[t])
    /\ vps' = vps_after_failed_create(vps, tasks[t])
    /\ UNCHANGED <<next_id, now, PLANS, env, workload, admin_ops, serial, named>>

\* lines 138-143: the launch call returned 0; limits.memory is set
LaunchOk(t) ==
    /\ Returning(tasks[t], "launch")
    /\ \E res \in LxcResults(tasks[t]) :
         /\ res.rc = 0
         /\ tasks' = [tasks EXCEPT ![t] =
                run_lxc_cmd([@ EXCEPT !.rc = res.rc, !.out = res.out],
                            memory_args(@.container_name, @.ram_mb), "limit_mem")]
    /\ UNCHANGED <<users, vps, next_id, now, PLANS, env, workload, admin_ops, serial, named>>

\* faulty variant: a failed limits.memory call fails the create
AfterLimitMem_checked(tk, res) ==
    IF res.rc # 0
    THEN Finished([tk EXCEPT !.rc = res.rc], "failed", "false",
                  StrOr(res.err, res.out), "none")
    ELSE run_lxc_cmd(tk, cpu_args(tk.container_name, tk.cpu_cores), "limit_cpu")

\* lines 143-145: whatever the limits.memory call returned, limits.cpu is set
AfterLimitMem(tk, res) ==
    run_lxc_cmd(Dropped(tk, res), cpu_args(tk.container_name, tk.cpu_cores), "limit_cpu")

\* lines 143-145: the limits.memory call returned (its result is dropped);
\* limits.cpu is set
LimitMemReturn(t) ==
    /\ Returning(tasks[t], "limit_mem")
    /\ \E res \in LxcResults(tasks[t]) :
         tasks' = [tasks EXCEPT ![t] = AfterLimitMem(@, res)]
    /\ UNCHANGED <<users, vps, next_id, now, PLANS, env, workload, admin_ops, serial, named>>

\* line 146: create_container returns (True, out or "created")
AfterCreated(tk, debit) ==
    Finished(tk, "success", "true", StrOr(tk.out, s_created), debit)

\* faulty variant: the debit is left out
BuywcDebit_skipped(tbl, tk) == [ok |-> TRUE, tbl |-> tbl]

\* line 220 of cmd_buywc: remove_credits(ctx.author.id, cost)
BuywcDebit(tbl, tk) == remove_credits(tbl, tk.author, tk.cost)

\* lines 145-146 and 218-222: the limits.cpu call returned, create_container
\* returned True; cmd_buywc debits and inserts the row
BuywcFinish(t) ==
    /\ Returning(tasks[t], "limit_cpu")
    /\ tasks[t].cmd = "buywc"
    /\ \E res \in LxcResults(tasks[t]) :
         LET tk == Dropped(tasks[t], res)
             deb == BuywcDebit(users, tk)
             row == vps_row(next_id, tk.author, tk.container_name, tk.plan,
                            PLANS[tk.plan].ram_mb, PLANS[tk.plan].cpu, tk.arch, now)
         IN  /\ users' = deb.tbl
             /\ serial' = RefDebit(serial, tk.author, tk.cost)
             /\ vps' = vps \cup {row}
             /\ next_id' = next_id + 1
             /\ named' = (next_id :> tk.suffix) @@ named
             /\ tasks' = [NotAlone(tasks, tk.author, t) EXCEPT ![t] =
                    [AfterCreated(tk, IF deb.ok THEN "true" ELSE "false") EXCEPT
                        !.raced = (get_credits(users, tk.author) # tk.user_credits)]]
    /\ UNCHANGED <<now, PLANS, env, workload, admin_ops>>

\* lines 145-146 and 265-267: cmd_create inserts the row
CreateFinish(t) ==
    /\ Returning(tasks[t], "limit_cpu")
    /\ tasks[t].cmd = "create"
    /\ \E res \in LxcResults(tasks[t]) :
         LET tk == Dropped(tasks[t], res)
             row == vps_row(next_id, tk.user, tk.container_name, s_custom,
                            tk.ram_mb, tk.cpu_cores, s_intel, now)
         IN  /\ vps' = vps \cup {row}
             /\ next_id' = next_id + 1
             /\ named' = (next_id :> tk.suffix) @@ named
             /\ tasks' = [NotAlone(tasks, tk.user, t) EXCEPT ![t] =
                    AfterCreated(tk, "none")]
    /\ UNCHANGED <<users, now, PLANS, env, workload, admin_ops, serial>>

\* lines 145-146 and 325-327: cmd_giveplan inserts the row
GiveplanFinish(t) ==
    /\ Returning(tasks[t], "limit_cpu")
    /\ tasks[t].cmd = "giveplan"
    /\ \E res \in LxcResults(tasks[t]) :
         LET tk == Dropped(tasks[t], res)
             row == vps_row(next_id, tk.user, tk.container_name, tk.plan,
                            PLANS[tk.plan].ram_mb, PLANS[tk.plan].cpu, s_intel, now)
         IN  /\ vps' = vps \cup {row}
             /\ next_id' = next_id + 1
             /\ named' = (next_id :> tk.suffix) @@ named
             /\ tasks' = [NotAlone(tasks, tk.user, t) EXCEPT ![t] =
                    AfterCreated(tk, "none")]
    /\ UNCHANGED <<users, now, PLANS, env, workload, admin_ops, serial>>

-----------------------------------------------------------------------------
(* !manage action vps_id   and   !delete-vps user vps_number *)

s_Stop == <<"S","t","o","p">>
s_reboot == <<"r","e","b","o","o","t">>
ActionInputs == {s_delete, s_info, s_Stop, s_reboot}
LifecycleActions == {s_start, s_stop, s_restart, s_info}

NewManage(author, action, vps_id) ==
    [IdleTask EXCEPT !.cmd = "manage", !.author = author, !.action = action,
                     !.vps_id = vps_id]

\* line 237: no row with this id
ManageNotFound(t, author, action_in, vps_id) ==
    /\ CanStart(t, "manage")
    /\ get_vps_by_id(vps, vps_id) = {}
    /\ tasks' = [tasks EXCEPT ![t] =
                    Finished(NewManage(author, action_in, vps_id),
                             "not_found", "none", <<>>, "none")]
    /\ UNCHANGED <<users, vps, next_id, now, PLANS, env, workload, admin_ops, serial, named>>

\* line 238: the author neither owns the row nor is an admin
ManageNotOwner(t, author, action_in, vps_id) ==
    /\ CanStart(t, "manage")
    /\ \E row \in get_vps_by_id(vps, vps_id) :
         /\ row.user_id # author /\ ~is_admin_ctx(author)
         /\ tasks' = [tasks EXCEPT ![t] =
                    Finished(NewManage(author, action_in, vps_id),
                             "not_owner", "none", <<>>, "none")]
    /\ UNCHANGED <<users, vps, next_id, now, PLANS, env, workload, admin_ops, serial, named>>

\* lines 239-242: action "delete"; suspends on the "Deleting" message
ManageDelete(t, author, action_in, vps_id) ==
    /\ CanStart(t, "manage")
    /\ lower(action_in) = s_delete
    /\ \E row \in get_vps_by_id(vps, vps_id) :
         /\ row.user_id = author \/ is_admin_ctx(author)
         /\ tasks' = [NotAlone(tasks, row.user_id, t) EXCEPT ![t] =
                    [NewManage(author, lower(action_in), vps_id) EXCEPT
                        !.user = row.user_id,
                        !.container_name = row.container_name, !.pc = "send"]]
    /\ UNCHANGED <<users, vps, next_id, now, PLANS, env, workload, admin_ops, serial, named>>

\* lines 247-248: neither delete nor a lifecycle action
ManageInvalid(t, author, action_in, vps_id) ==
    /\ CanStart(t, "manage")
    /\ lower(action_in) \notin LifecycleActions \cup {s_delete}
    /\ \E row \in get_vps_by_id(vps, vps_id) :
         /\ row.user_id = author \/ is_admin_ctx(author)
         /\ tasks' = [tasks EXCEPT ![t] =
                    Finished(NewManage(author, lower(action_in), vps_id),
                             "invalid_action", "none", <<>>, "none")]
    /\ UNCHANGED <<users, vps, next_id, now, PLANS, env, workload, admin_ops, serial, named>>

\* lines 249 and 155-161: action_container runs up to the await of its call
ManageAction(t, author, action_in, vps_id) ==
    /\ CanStart(t, "manage")
    /\ lower(action_in) \in LifecycleActions
    /\ \E row \in get_vps_by_id(vps, vps_id) :
         /\ row.user_id = author \/ is_admin_ctx(author)
         /\ tasks' = [NotAlone(tasks, row.user_id, t) EXCEPT ![t] =
                run_lxc_cmd([NewManage(author, lower(action_in), vps_id) EXCEPT
                                !.user = row.user_id,
                                !.container_name = row.container_name],
                            action_args(row.container_name, lower(action_in)),
                            "action")]
    /\ UNCHANGED <<users, vps, next_id, now, PLANS, env, workload, admin_ops, serial, named>>

\* faulty variant: the action is written to the status of the row
vps_after_action_tracked(tbl, tk) ==
    {IF r.id = tk.vps_id THEN [r EXCEPT !.status = tk.action] ELSE r : r \in tbl}

\* lines 249-253: after action_container cmd_manage only calls ctx.send;
\* table vps after it
vps_after_action(tbl, tk) == tbl

\* lines 162-163 and 250: the call returned a nonzero code
ActionFailed(t) ==
    /\ Returning(tasks[t], "action")
    /\ \E res \in LxcResults(tasks[t]) :
         /\ res.rc # 0
         /\ tasks' = [tasks EXCEPT ![t] =
                Finished([@ EXCEPT !.rc = res.rc], "failed", "false",
                         StrOr(res.err, res.out), "none")]
    /\ vps' = vps_after_action(vps, tasks[t])
    /\ UNCHANGED <<users, next_id, now, PLANS, env, workload, admin_ops, serial, named>>

\* lines 164 and 251-253: the call returned 0
ActionOk(t) ==
    /\ Returning(tasks[t], "action")
    /\ \E res \in LxcResults(tasks[t]) :
         /\ res.rc = 0
         /\ tasks' = [tasks EXCEPT ![t] =
                Finished([@ EXCEPT !.rc = res.rc], "success", "true",
                         StrOr(res.out, s_OK), "none")]
    /\ vps' = vps_after_action(vps, tasks[t])
    /\ UNCHANGED <<users, next_id, now, PLANS, env, workload, admin_ops, serial, named>>

\* cmd_delete_vps line 271: not an admin
DeleteVpsUnauthorized(t, author, user, vps_number) ==
    /\ CanStart(t, "delete_vps")
    /\ ~is_admin_ctx(author)
    /\ tasks' = [tasks EXCEPT ![t] =
                    Finished([IdleTask EXCEPT !.cmd = "delete_vps"],
                             "unauthorized", "none", <<>>, "none")]
    /\ UNCHANGED <<users, vps, next_id, now, PLANS, env, workload, admin_ops, serial, named>>

\* cmd_delete_vps lines 272-273: no row, or a row of another user
DeleteVpsNotFound(t, author, user, vps_number) ==
    /\ CanStart(t, "delete_vps")
    /\ is_admin_ctx(author)
    /\ \A row \in get_vps_by_id(vps, vps_number) : row.user_id # user
    /\ tasks' = [tasks EXCEPT ![t] =
                    Finished([IdleTask EXCEPT !.cmd = "delete_vps"],
                             "not_found", "none", <<>>, "none")]
    /\ UNCHANGED <<users, vps, next_id, now, PLANS, env, workload, admin_ops, serial, named>>

\* cmd_delete_vps lines 272-275: suspends on the "Deleting" message
DeleteVpsAnnounce(t, author, user, vps_number) ==
    /\ CanStart(t, "delete_vps")
    /\ is_admin_ctx(author)
    /\ \E row \in get_vps_by_id(vps, vps_number) :
         /\ row.user_id = user
         /\ tasks' = [NotAlone(tasks, user, t) EXCEPT ![t] =
                    [IdleTask EXCEPT !.cmd = "delete_vps", !.author = author,
                        !.user = user, !.vps_id = vps_number, !.action = s_delete,
                        !.container_name = row.container_name, !.pc = "send"]]
    /\ UNCHANGED <<users, vps, next_id, now, PLANS, env, workload, admin_ops, serial, named>>

-----------------------------------------------------------------------------
(* delete_container *)

\* lines 243, 276 and 149: delete_container runs up to the await of its
\* stop --force call
CallDeleteContainer(t) ==
    /\ tasks[t].pc = "send"
    /\ tasks[t].cmd \in {"manage", "delete_vps"}
    /\ tasks' = [tasks EXCEPT ![t] =
                run_lxc_cmd(@, stop_args(@.container_name), "force_stop")]
    /\ UNCHANGED <<users, vps, next_id, now, PLANS, env, workload, admin_ops, serial, named>>

\* faulty variant: a failed stop call fails the delete
AfterStop_checked(tk, res) ==
    IF res.rc # 0
    THEN Finished([tk EXCEPT !.rc = res.rc], "failed", "false",
                  StrOr(res.err, res.out), "none")
    ELSE run_lxc_cmd(tk, delete_args(tk.container_name), "delete")

\* lines 149-150: whatever the stop call returned, delete is called
AfterStop(tk, res) ==
    run_lxc_cmd(Dropped(tk, res), delete_args(tk.container_name), "delete")

\* lines 149-150: the stop call returned (its result is dropped); delete is called
StopReturn(t) ==
    /\ Returning(tasks[t], "force_stop")
    /\ \E res \in LxcResults(tasks[t]) :
         tasks' = [tasks EXCEPT ![t] = AfterStop(@, res)]
    /\ UNCHANGED <<users, vps, next_id, now, PLANS, env, workload, admin_ops, serial, named>>

\* faulty variant: the row is deleted whatever delete_container returned
AfterDeleteFailed_removed(tbl, vps_id) == delete_vps_record(tbl, vps_id)

\* what cmd_manage and cmd_delete_vps do to table vps when delete_container
\* returned False: lines 244, 277 (return before delete_vps_record)
AfterDeleteFailed(tbl, vps_id) == tbl

\* lines 151-152 and 244, 277: the delete call returned a nonzero code
DeleteFailed(t) ==
    /\ Returning(tasks[t], "delete")
    /\ \E res \in LxcResults(tasks[t]) :
         /\ res.rc # 0
         /\ tasks' = [NotAlone(tasks, tasks[t].user, t) EXCEPT ![t] =
                Finished([@ EXCEPT !.rc = res.rc], "failed", "false",
                         StrOr(res.err, res.out), "none")]
    /\ vps' = AfterDeleteFailed(vps, tasks[t].vps_id)
    /\ UNCHANGED <<users, next_id, now, PLANS, env, workload, admin_ops, serial, named>>

\* faulty variant: the owner is given a credit back
users_after_delete_refunded(tbl, tk) == add_credits(tbl, tk.user, 1)

\* lines 245-246, 278-279: after a delete the handlers only call
\* delete_vps_record and ctx.send; table users after them
users_after_delete(tbl, tk) == tbl

\* lines 153 and 245-246, 278-279: the delete call returned 0; the row goes
DeleteOk(t) ==
    /\ Returning(tasks[t], "delete")
    /\ \E res \in LxcResults(tasks[t]) :
         /\ res.rc = 0
         /\ tasks' = [NotAlone(tasks, tasks[t].user, t) EXCEPT ![t] =
                Finished([@ EXCEPT !.rc = res.rc], "success", "true", s_deleted, "none")]
    /\ vps' = delete_vps_record(vps, tasks[t].vps_id)
    /\ users' = users_after_delete(users, tasks[t])
    /\ UNCHANGED <<next_id, now, PLANS, env, workload, admin_ops, serial, named>>

-----------------------------------------------------------------------------
(* !adminc, !adminrc, !editplans: no await before their effect *)

IsDigitStr(s) == s # <<>> /\ \A i \in 1..Len(s) : s[i] \in DigitChars
DigitVal(ch) == CHOOSE d \in 0..9 : DigitOf(d) = ch
RECURSIVE StrToNat(_)
StrToNat(s) ==
    IF s = <<>> THEN 0
    ELSE StrToNat(SubSeq(s, 1, Len(s) - 1)) * 10 + DigitVal(s[Len(s)])

\* int(amount) for an optional sign and decimal digits; ok is FALSE where
\* int() raises ValueError
int_of_str(s) ==
    IF IsDigitStr(s) THEN [ok |-> TRUE, val |-> StrToNat(s)]
    ELSE IF s # <<>> /\ s[1] = "-" /\ IsDigitStr(Tail(s))
    THEN [ok |-> TRUE, val |-> 0 - StrToNat(Tail(s))]
    ELSE IF s # <<>> /\ s[1] = "+" /\ IsDigitStr(Tail(s))
    THEN [ok |-> TRUE, val |-> StrToNat(Tail(s))]
    ELSE [ok |-> FALSE, val |-> 0]

\* lines 283, 289, 302: not an admin
AdminOpUnauthorized(author) ==
    /\ workload.cmds \cap {"adminc", "adminrc", "editplans"} # {}
    /\ admin_ops < MaxAdminOps
    /\ ~is_admin_ctx(author)
    /\ admin_ops' = admin_ops + 1
    /\ UNCHANGED <<users, vps, next_id, now, PLANS, env, workload, tasks, serial, named>>

\* cmd_adminc lines 283-285
Adminc(author, user, amount) ==
    /\ "adminc" \in workload.cmds
    /\ admin_ops < MaxAdminOps
    /\ is_admin_ctx(author)
    /\ users' = add_credits(users, user, amount)
    /\ serial' = RefCredit(serial, user, amount)
    /\ tasks' = NotAlone(tasks, user, 0)
    /\ admin_ops' = admin_ops + 1
    /\ UNCHANGED <<vps, next_id, now, PLANS, env, workload, named>>

\* cmd_adminrc lines 289-292: amount == "all"
AdminrcAll(author, user, amount) ==
    /\ "adminrc" \in workload.cmds
    /\ admin_ops < MaxAdminOps
    /\ is_admin_ctx(author)
    /\ amount = s_all
    /\ users' = zero_credits(users, user)
    /\ serial' = RefZero(serial, user)
    /\ tasks' = NotAlone(tasks, user, 0)
    /\ admin_ops' = admin_ops + 1
    /\ UNCHANGED <<vps, next_id, now, PLANS, env, workload, named>>

\* cmd_adminrc lines 293-296: int(amount) raises
AdminrcInvalid(author, user, amount) ==
    /\ "adminrc" \in workload.cmds
    /\ admin_ops < MaxAdminOps
    /\ is_admin_ctx(author)
    /\ amount # s_all
    /\ ~int_of_str(amount).ok
    /\ admin_ops' = admin_ops + 1
    /\ UNCHANGED <<users, vps, next_id, now, PLANS, env, workload, tasks, serial, named>>

\* cmd_adminrc lines 293-298
Adminrc(author, user, amount) ==
    /\ "adminrc" \in workload.cmds
    /\ admin_ops < MaxAdminOps
    /\ is_admin_ctx(author)
    /\ amount # s_all
    /\ int_of_str(amount).ok
    /\ users' = remove_credits(users, user, int_of_str(amount).val).tbl
    /\ serial' = RefDebit(serial, user, int_of_str(amount).val)
    /\ tasks' = NotAlone(tasks, user, 0)
    /\ admin_ops' = admin_ops + 1
    /\ UNCHANGED <<vps, next_id, now, PLANS, env, workload, named>>

\* the ram_mb, cpu, disk_gb arguments of !editplans
EditInputs == {<<768, 8, 40>>}

\* cmd_editplans lines 303-305: the plan is not in PLANS
EditplansNotFound(author, plan_in) ==
    /\ "editplans" \in workload.cmds
    /\ admin_ops < MaxAdminOps
    /\ is_admin_ctx(author)
    /\ lower(plan_in) \notin DOMAIN PLANS
    /\ admin_ops' = admin_ops + 1
    /\ UNCHANGED <<users, vps, next_id, now, PLANS, env, workload, tasks, serial, named>>

\* cmd_editplans lines 303-309
Editplans(author, plan_in, ram_mb, cpu, disk_gb) ==
    /\ "editplans" \in workload.cmds
    /\ admin_ops < MaxAdminOps
    /\ is_admin_ctx(author)
    /\ lower(plan_in) \in DOMAIN PLANS
    /\ PLANS' = [PLANS EXCEPT ![lower(plan_in)] =
                    [@ EXCEPT !.ram_mb = ram_mb, !.cpu = cpu, !.disk_gb = disk_gb]]
    /\ admin_ops' = admin_ops + 1
    /\ UNCHANGED <<users, vps, next_id, now, env, workload, tasks, serial, named>>

-----------------------------------------------------------------------------
(* The bot *)

\* one step of the command in slot t
Step(t) ==
    \/ \E author \in Users, plan_in \in PlanInputs, arch_in \in ArchInputs :
         \/ BuywcUnknownPlan(t, author, plan_in, arch_in)
         \/ BuywcInsufficient(t, author, plan_in, arch_in)
         \/ BuywcAnnounce(t, author, plan_in, arch_in)
    \/ \E author \in Users, user \in Users :
         \/ CreateUnauthorized(t, author, user)
         \/ \E ram_mb \in RamInputs, cpu_cores \in CpuInputs :
              CreateAnnounce(t, author, user, ram_mb, cpu_cores)
         \/ \E plan_in \in PlanInputs :
              \/ GiveplanUnknownPlan(t, author, user, plan_in)
              \/ GiveplanAnnounce(t, author, user, plan_in)
         \/ \E vps_number \in 1..next_id :
              \/ DeleteVpsUnauthorized(t, author, user, vps_number)
              \/ DeleteVpsNotFound(t, author, user, vps_number)
              \/ DeleteVpsAnnounce(t, author, user, vps_number)
    \/ \E author \in Users, action_in \in ActionInputs, vps_id \in 1..next_id :
         \/ ManageNotFound(t, author, action_in, vps_id)
         \/ ManageNotOwner(t, author, action_in, vps_id)
         \/ ManageDelete(t, author, action_in, vps_id)
         \/ ManageInvalid(t, author, action_in, vps_id)
         \/ ManageAction(t, author, action_in, vps_id)
    \/ CallCreateContainer(t)
    \/ LaunchFailed(t)
    \/ LaunchOk(t)
    \/ LimitMemReturn(t)
    \/ BuywcFinish(t)
    \/ CreateFinish(t)
    \/ GiveplanFinish(t)
    \/ CallDeleteContainer(t)
    \/ StopReturn(t)
    \/ DeleteFailed(t)
    \/ DeleteOk(t)
    \/ ActionFailed(t)
    \/ ActionOk(t)

\* an admin command that finishes without suspending before its effect
AdminOp ==
    \E author \in Users :
       \/ AdminOpUnauthorized(author)
       \/ \E user \in Users :
            \/ \E amount \in AddAmounts : Adminc(author, user, amount)
            \/ \E amount \in RemoveInputs :
                 \/ AdminrcAll(author, user, amount)
                 \/ AdminrcInvalid(author, user, amount)
                 \/ Adminrc(author, user, amount)
       \/ \E plan_in \in PlanInputs :
            \/ EditplansNotFound(author, plan_in)
            \/ \E e \in EditInputs : Editplans(author, plan_in, e[1], e[2], e[3])

Next ==
    \/ \E t \in Tid : Step(t)
    \/ AdminOp
    \/ Tick

Spec == Init /\ [][Next]_vars

\* The event loop runs every command that is ready: a command about to call
\* an LXC helper, and a command whose asyncio.sleep is over.  Nothing makes a
\* started lxc process exit: line 132 awaits proc.communicate() with no
\* timeout (the timeout parameter of run_lxc_cmd is never read).
FairSpec ==
    Spec /\ \A t \in Tid : WF_vars(tasks[t].proc # "running" /\ Step(t))

-----------------------------------------------------------------------------
(* Properties *)

\* the stored balance of a user, as !credits shows it
Balance(u) == get_credits(users, u)

\* C1: the stored credit balance of every user is >= 0 after any sequence of
\* adminc, adminrc and buywc commands
BalancesNonNegative == \A u \in DOMAIN users : users[u] >= 0

\* the step is the last one of the charged create in slot t
BuywcEnds(t) ==
    /\ tasks[t].pc # "done"
    /\ tasks'[t].pc = "done"
    /\ tasks'[t].cmd = "buywc"

\* rows of table tbl owned by user u and inserted since the id counter was id0
NewRowsOf(tbl, u, id0) == {r \in tbl : r.user_id = u /\ r.id >= id0}

\* C2: a charged create that ends with no other command on its user in between
\* either succeeds with the balance lower by exactly the price and exactly one
\* new row of that user, or fails with the balance and the rows unchanged
ChargedCreateAllOrNothing ==
    [][\A t \in Tid :
         BuywcEnds(t) =>
            IF tasks[t].pc = "idle"
            THEN /\ tasks'[t].reply \in {"unknown_plan", "insufficient"}
                 /\ users' = users
                 /\ vps' = vps
            ELSE LET tk == tasks[t] IN
                 tk.alone =>
                    IF tasks'[t].reply = "success"
                    THEN /\ get_credits(users', tk.author) = tk.bal0 - tk.cost
                         /\ Cardinality(NewRowsOf(vps', tk.author, tk.id0)) = 1
                         /\ get_user_vps(vps, tk.author) \subseteq vps'
                    ELSE /\ get_credits(users', tk.author) = tk.bal0
                         /\ NewRowsOf(vps', tk.author, tk.id0) = {}
                         /\ vps' = vps
      ]_vars

\* C2 witness: a user was given 2 credits, bought the plan priced 2 with no
\* other command around, and has balance 0 and one row
BoughtAlone ==
    /\ admin_ops = 1
    /\ tasks[1].cmd = "buywc" /\ tasks[1].reply = "success" /\ tasks[1].debit = "true"
    /\ tasks[2].pc = "idle"
    /\ \E u \in DOMAIN users :
         /\ users[u] = 0
         /\ \E r \in vps : r.user_id = u /\ r.plan = s_basic
    /\ Cardinality(vps) = 1


\* the !buywc start steps with given arguments
BuywcStarts(t, author, plan_in, arch_in) ==
    \/ BuywcUnknownPlan(t, author, plan_in, arch_in)
    \/ BuywcInsufficient(t, author, plan_in, arch_in)
    \/ BuywcAnnounce(t, author, plan_in, arch_in)

\* C3: a !buywc whose author's balance is below the price of the plan ends at
\* once with the insufficient-credits reply: no call to run_lxc_cmd, no
\* process, tables users and vps and the plans unchanged
InsufficientCreditsNoEffect ==
    [][\A t \in Tid :
         (tasks[t].pc = "idle" /\ tasks'[t].cmd = "buywc") =>
            \A author \in Users, plan_in \in PlanInputs, arch_in \in ArchInputs :
               ( /\ lower(plan_in) \in DOMAIN PLANS
                 /\ get_credits(users, author) < PLANS[lower(plan_in)].price
                 /\ BuywcStarts(t, author, plan_in, arch_in) )
               => /\ tasks'[t].pc = "done"
                  /\ tasks'[t].reply = "insufficient"
                  /\ tasks'[t].calls = <<>>
                  /\ tasks'[t].spawned = 0
                  /\ users' = users
                  /\ vps' = vps
                  /\ PLANS' = PLANS
      ]_vars

\* C3 witness: a user with balance 0 asked for the plan priced 2 and was refused
RefusedForCredits ==
    /\ \E t \in Tid : tasks[t].cmd = "buywc" /\ tasks[t].reply = "insufficient"
    /\ users = <<>>
    /\ vps = {}

CreateCmds == {"buywc", "create", "giveplan"}

\* C4: in the three create commands a failed create_container ends the
\* command with the failure reply, with no debit and no new row; the command
\* goes on to the limits calls only after a launch that returned 0
FailedCreateNoEffect ==
    /\ [](\A t \in Tid : tasks[t].pc \in {"limit_mem", "limit_cpu"} => tasks[t].rc = 0)
    /\ [][\A t \in Tid :
            ( /\ tasks[t].cmd \in CreateCmds
              /\ tasks[t].pc = "launch"
              /\ tasks'[t].pc = "done" )
            => /\ tasks'[t].ok = "false"
               /\ tasks'[t].reply = "failed"
               /\ tasks'[t].debit = "none"
               /\ users' = users
               /\ vps' = vps
               /\ next_id' = next_id
         ]_vars

\* C4 witness: a !buywc of a user with credits failed at the launch: the
\* balance is still 2 and there is no row
FailedCreateSeen ==
    /\ \E t \in Tid : tasks[t].cmd = "buywc" /\ tasks[t].reply = "failed"
    /\ \E u \in DOMAIN users : users[u] = 2
    /\ vps = {}
    /\ admin_ops = 1

\* C5: when delete_container has returned, either it returned True and the
\* row with the id is gone, or it returned False, the failure is replied and
\* table vps is as it was
DeleteRemovesOnlyOnSuccess ==
    [][\A t \in Tid :
         ( /\ tasks[t].cmd \in {"manage", "delete_vps"}
           /\ tasks[t].pc = "delete"
           /\ tasks'[t].pc = "done" )
         => \/ /\ tasks'[t].ok = "true"
               /\ tasks'[t].reply = "success"
               /\ vps' = {r \in vps : r.id # tasks[t].vps_id}
            \/ /\ tasks'[t].ok = "false"
               /\ tasks'[t].reply = "failed"
               /\ vps' = vps
      ]_vars

\* C5 witness: a delete failed in the backend and the row is still there
DeleteFailedRowKept ==
    /\ \E t \in Tid : tasks[t].action = s_delete /\ tasks[t].reply = "failed"
    /\ Cardinality(vps) = 1
    /\ tasks[3].pc = "idle"

\* C6: the balances are those got by applying the committed adjustments one
\* at a time, in the order of their commits
LedgerSerial == users = serial

\* C6 witness: a charged create debited a balance that another command had
\* changed since the create read it
RacedDebit ==
    \E t \in Tid : tasks[t].cmd = "buywc" /\ tasks[t].raced /\ tasks[t].debit = "true"

\* C7: no command waits forever on the backend: every command that has
\* started is, from any point on, eventually no longer in flight
EveryCommandEnds ==
    \A t \in Tid : []<>(~InFlight(tasks[t]))

\* C8: a charged create whose debit returned False does not reply success (nor
\* the backend failure)
DebitFailureReported ==
    \A t \in Tid :
        (tasks[t].cmd = "buywc" /\ tasks[t].pc = "done" /\ tasks[t].debit = "false")
        => tasks[t].reply \notin {"success", "failed"}

-----------------------------------------------------------------------------
(* Simulation mode *)

\* simulation mode is active: the binary is absent and simulation is enabled
\* by configuration, or the kernel is a foreign one
SimulationActive == (~env.lxc_exists /\ env.FAKE_IF_NO_LXC) \/ env.microsoft

\* the operation a command requests of the LXC helpers: create, delete, or
\* the lifecycle action
RequestedOp(tk) == IF tk.cmd \in CreateCmds THEN s_create ELSE tk.action

\* the lxc subcommand that does the requested operation
BackendOp(tk) == IF tk.cmd \in CreateCmds THEN s_launch ELSE tk.action

Spaced(word) == <<" ">> \o word

\* the output of a simulated request, as a function of the request alone
SimOutput(tk) ==
    IF tk.cmd \in CreateCmds
    THEN s_fake \o LXC_PATH \o Spaced(s_launch) \o Spaced(s_image)
           \o Spaced(tk.container_name) \o Spaced(s_dash_p) \o Spaced(s_default)
    ELSE IF tk.action = s_delete
    THEN s_deleted
    ELSE s_fake \o LXC_PATH \o Spaced(tk.action) \o Spaced(tk.container_name)

\* in simulation mode no process is started and no command fails or raises
SimNeverSpawns ==
    SimulationActive =>
        \A t \in Tid : /\ tasks[t].spawned = 0
                       /\ tasks[t].proc # "running"
                       /\ tasks[t].reply \notin {"failed", "exception"}
                       /\ tasks[t].ok # "false"

\* the step on which the helper called by command t returns
HelperReturns(t) == tasks[t].calls # <<>> /\ tasks'[t].pc = "done"

\* C9 (as amended): in simulation mode every create, delete and lifecycle
\* request succeeds without starting a process, with an output that is a
\* function of the request and contains the lxc subcommand run for it
\* (launch for a create, the action otherwise)
SimulatedCallsEchoSubcommand ==
    /\ []SimNeverSpawns
    /\ [][SimulationActive =>
            \A t \in Tid : HelperReturns(t) =>
                /\ tasks'[t].ok = "true"
                /\ tasks'[t].msg = SimOutput(tasks[t])
                /\ Contains(tasks'[t].msg, BackendOp(tasks[t]))
         ]_vars

\* C9 witness: in simulation mode a create, a stop and a delete have returned
SimulatedCreateStopDelete ==
    /\ SimulationActive
    /\ \E a, b, c \in Tid :
         /\ tasks[a].pc = "done" /\ tasks[a].cmd = "create" /\ tasks[a].ok = "true"
         /\ tasks[b].pc = "done" /\ tasks[b].action = s_stop /\ tasks[b].ok = "true"
         /\ tasks[c].pc = "done" /\ tasks[c].action = s_delete /\ tasks[c].ok = "true"

\* C9: in simulation mode every create, delete and lifecycle request
\* succeeds without starting a process, with an output that is a function of
\* the request and contains the name of the requested operation
SimulatedCallsNameOperation ==
    /\ []SimNeverSpawns
    /\ [][SimulationActive =>
            \A t \in Tid : HelperReturns(t) =>
                /\ tasks'[t].ok = "true"
                /\ tasks'[t].msg = SimOutput(tasks[t])
                /\ Contains(tasks'[t].msg, RequestedOp(tasks[t]))
         ]_vars

-----------------------------------------------------------------------------
(* Ledger operations *)

\* the amounts the ledger operations are tried with
MaxAmount == 3
LedgerAmounts == (0 - MaxAmount)..MaxAmount

\* table b differs from table a at most in the row of user u
OnlyRowOf(u, a, b) ==
    \A v \in Users \ {u} :
        /\ (v \in DOMAIN b) <=> (v \in DOMAIN a)
        /\ v \in DOMAIN a => b[v] = a[v]

\* C10: on the stored table, for every user and amount: get_credits is the
\* stored credits or 0 without a row; add_credits leaves amount without a
\* row and balance + amount otherwise; remove_credits returns False and
\* changes nothing without a row, and otherwise returns True and leaves
\* max(0, balance - amount); zeroing leaves 0; no other user's row changes
LedgerOpsMatchDefinitions ==
    \A u \in Users, a \in LedgerAmounts :
        LET has == u \in DOMAIN users
            cr  == add_credits(users, u, a)
            db  == remove_credits(users, u, a)
            ze  == zero_credits(users, u)
        IN  /\ get_credits(users, u) = (IF has THEN users[u] ELSE 0)
            /\ u \in DOMAIN cr
            /\ cr[u] = (IF has THEN users[u] + a ELSE a)
            /\ OnlyRowOf(u, users, cr)
            /\ db.ok = has
            /\ ~has => db.tbl = users
            /\ has => /\ u \in DOMAIN db.tbl
                      /\ db.tbl[u] >= 0
                      /\ db.tbl[u] >= users[u] - a
                      /\ db.tbl[u] \in {0, users[u] - a}
            /\ OnlyRowOf(u, users, db.tbl)
            /\ get_credits(ze, u) = 0
            /\ (u \in DOMAIN ze) <=> has
            /\ OnlyRowOf(u, users, ze)

\* C10 witness: a credited user whose charged create debited the whole
\* balance, next to a user without a row
DebitedNextToNoRow ==
    \E u, v \in Users :
        /\ u \in DOMAIN users /\ users[u] = 0
        /\ v \notin DOMAIN users
        /\ admin_ops > 0
        /\ \E t \in Tid : tasks[t].cmd = "buywc" /\ tasks[t].debit = "true"

-----------------------------------------------------------------------------
(* Delete and lifecycle flows *)

\* the command in slot t, after the step, is a delete: !delete-vps, or
\* !manage with the action delete
IsDeleteFlow(tk) == tk.cmd = "delete_vps" \/ (tk.cmd = "manage" /\ tk.action = s_delete)

\* the step is one of the command in slot t
StepOf(t) == tasks'[t].pc # tasks[t].pc

\* C11: no step of a delete changes a balance, whether delete_container
\* returns True or False; the step on which it returned True for a row that
\* is in the table leaves the owner with one row less
DeleteKeepsBalances ==
    [][\A t \in Tid :
         (StepOf(t) /\ IsDeleteFlow(tasks'[t])) =>
            /\ users' = users
            /\ (tasks'[t].pc = "done" /\ tasks'[t].ok = "true") =>
                  \A row \in get_vps_by_id(vps, tasks[t].vps_id) :
                      Cardinality(get_user_vps(vps', row.user_id))
                          = Cardinality(get_user_vps(vps, row.user_id)) - 1
            /\ (tasks'[t].pc = "done" /\ tasks'[t].ok # "true") => vps' = vps
      ]_vars

\* C11 witness: both users have 2 credits, and the one row made has been
\* deleted by a !manage delete
DeletedWithCredits ==
    /\ \A u \in Users : u \in DOMAIN users /\ users[u] = 2
    /\ next_id = 2
    /\ vps = {}
    /\ \E t \in Tid : /\ tasks[t].cmd = "manage" /\ tasks[t].action = s_delete
                      /\ tasks[t].pc = "done" /\ tasks[t].ok = "true"

\* the command in slot t is a !manage with a lifecycle action
IsLifecycleFlow(tk) == tk.cmd = "manage" /\ tk.action \in LifecycleActions

\* C12: no step of a lifecycle action, whether action_container returns True
\* or False, changes table users or table vps; every row keeps the status
\* "running" that create_vps_record wrote
LifecycleKeepsTables ==
    /\ [](\A r \in vps : r.status = s_running)
    /\ [][\A t \in Tid :
            (StepOf(t) /\ IsLifecycleFlow(tasks'[t])) =>
                /\ users' = users
                /\ vps' = vps
                /\ next_id' = next_id
         ]_vars

\* C12 witness: a stop of the one row failed in the backend; its owner's
\* credits and the row are there
StopFailedWithCredits ==
    /\ \E t \in Tid : /\ tasks[t].cmd = "manage" /\ tasks[t].action = s_stop
                      /\ tasks[t].pc = "done" /\ tasks[t].ok = "false"
    /\ \E r \in vps : /\ r.status = s_running
                      /\ r.user_id \in DOMAIN users
                      /\ users[r.user_id] = 2

-----------------------------------------------------------------------------
(* Who may do what *)

\* the start steps of !manage, !delete-vps, !create and !giveplan with given
\* arguments, and the admin commands that do not suspend, by a given author
ManageStarts(t, author, action_in, vps_id) ==
    \/ ManageNotFound(t, author, action_in, vps_id)
    \/ ManageNotOwner(t, author, action_in, vps_id)
    \/ ManageDelete(t, author, action_in, vps_id)
    \/ ManageInvalid(t, author, action_in, vps_id)
    \/ ManageAction(t, author, action_in, vps_id)
DeleteVpsStarts(t, author, user, vps_number) ==
    \/ DeleteVpsUnauthorized(t, author, user, vps_number)
    \/ DeleteVpsNotFound(t, author, user, vps_number)
    \/ DeleteVpsAnnounce(t, author, user, vps_number)
CreateStarts(t, author, user) ==
    \/ CreateUnauthorized(t, author, user)
    \/ \E ram_mb \in RamInputs, cpu_cores \in CpuInputs :
         CreateAnnounce(t, author, user, ram_mb, cpu_cores)
    \/ \E plan_in \in PlanInputs :
         \/ GiveplanUnknownPlan(t, author, user, plan_in)
         \/ GiveplanAnnounce(t, author, user, plan_in)
AdminOpBy(author) ==
    \/ AdminOpUnauthorized(author)
    \/ \E user \in Users :
         \/ \E amount \in AddAmounts : Adminc(author, user, amount)
         \/ \E amount \in RemoveInputs :
              \/ AdminrcAll(author, user, amount)
              \/ AdminrcInvalid(author, user, amount)
              \/ Adminrc(author, user, amount)
    \/ \E plan_in \in PlanInputs :
         \/ EditplansNotFound(author, plan_in)
         \/ \E e \in EditInputs : Editplans(author, plan_in, e[1], e[2], e[3])

\* the command in slot t is refused on its first step and nothing else changes
Rejected(t) ==
    /\ tasks'[t].pc = "done"
    /\ tasks'[t].reply \in {"not_found", "not_owner", "invalid_action", "unauthorized"}
    /\ tasks'[t].calls = <<>> /\ tasks'[t].spawned = 0 /\ tasks'[t].proc = "none"
    /\ \A x \in Tid \ {t} : tasks'[x] = tasks[x]
    /\ UNCHANGED <<users, vps, next_id, PLANS>>

\* the command in slot t went on for the row with this id: it holds the
\* row's owner and container, and its author owns the row or is an admin
AcceptedFor(t, author, vps_id) ==
    InFlight(tasks'[t]) =>
        \E r \in get_vps_by_id(vps, vps_id) :
            /\ tasks'[t].author = author
            /\ tasks'[t].user = r.user_id
            /\ tasks'[t].container_name = r.container_name
            /\ (author = r.user_id \/ author \in Admins)

\* C13: a !manage by someone who neither owns the row nor is an admin, for
\* an id without a row, or with an action that is neither a lifecycle action
\* nor delete, a !delete-vps naming a user who does not own the row, and any
\* admin command by a non-admin are refused with nothing changed and no lxc
\* call; every lxc call of a !manage or !delete-vps is for the container of a
\* row that the author owned or was admin for when the command started
OnlyOwnerOrAdminActs ==
    [][/\ \A t \in Tid :
            (tasks[t].pc = "idle" /\ tasks'[t].cmd = "manage") =>
               \A author \in Users, action_in \in ActionInputs, vps_id \in 1..next_id :
                  ManageStarts(t, author, action_in, vps_id) =>
                     LET rows == get_vps_by_id(vps, vps_id)
                         refused ==
                             \/ rows = {}
                             \/ \E r \in rows : r.user_id # author /\ author \notin Admins
                             \/ lower(action_in) \notin {s_start, s_stop, s_restart, s_info, s_delete}
                     IN  IF refused THEN Rejected(t) ELSE AcceptedFor(t, author, vps_id)
       /\ \A t \in Tid :
            (tasks[t].pc = "idle" /\ tasks'[t].cmd = "delete_vps") =>
               \A author \in Users, user \in Users, vps_number \in 1..next_id :
                  DeleteVpsStarts(t, author, user, vps_number) =>
                     LET rows == get_vps_by_id(vps, vps_number)
                         refused ==
                             \/ author \notin Admins
                             \/ rows = {}
                             \/ \E r \in rows : r.user_id # user
                     IN  IF refused THEN Rejected(t) ELSE AcceptedFor(t, author, vps_number)
       /\ \A t \in Tid :
            (tasks[t].pc = "idle" /\ tasks'[t].cmd \in {"create", "giveplan"}) =>
               \A author \in Users \ Admins, user \in Users :
                  CreateStarts(t, author, user) => Rejected(t)
       /\ \A author \in Users \ Admins :
            AdminOpBy(author) => UNCHANGED <<users, vps, next_id, PLANS, tasks>>
       /\ \A t \in Tid :
            ( /\ tasks'[t].cmd \in {"manage", "delete_vps"}
              /\ tasks'[t].calls # tasks[t].calls
              /\ InFlight(tasks'[t]) ) =>
               /\ tasks'[t].args[3] = tasks'[t].container_name
               /\ (tasks'[t].author = tasks'[t].user \/ tasks'[t].author \in Admins)
               /\ tasks[t].pc # "idle" =>
                    /\ tasks'[t].container_name = tasks[t].container_name
                    /\ tasks'[t].author = tasks[t].author
                    /\ tasks'[t].user = tasks[t].user
      ]_vars

\* C13 witness: with one row in the table, a !manage was refused for not
\* owning it, and another !manage has called lxc for the row
RefusedNextToAllowed ==
    /\ Cardinality(vps) = 1
    /\ \E a, c \in Tid :
         /\ tasks[a].cmd = "manage" /\ tasks[a].reply = "not_owner"
         /\ tasks[c].cmd = "manage" /\ tasks[c].calls # <<>>

-----------------------------------------------------------------------------
(* Uncharged creates *)

\* C14: no step of a !create or !giveplan changes a balance; the step on
\* which create_container returned True inserts one row, of the target user
\* and for the container created, and no other step of theirs changes table
\* vps; every row that enters table vps does so on the step of a create
\* command whose launch of that container returned 0
UnchargedCreateRecords ==
    [][/\ \A t \in Tid :
            (StepOf(t) /\ tasks'[t].cmd \in {"create", "giveplan"}) =>
               /\ users' = users
               /\ IF tasks'[t].pc = "done" /\ tasks'[t].ok = "true"
                  THEN \E row \in vps' :
                          /\ row \notin vps
                          /\ vps' = vps \cup {row}
                          /\ row.user_id = tasks[t].user
                          /\ row.container_name = tasks[t].container_name
                  ELSE vps' = vps
       /\ \A row \in vps' \ vps :
            \E t \in Tid :
               /\ tasks[t].cmd \in CreateCmds
               /\ tasks[t].calls # <<>> /\ Head(tasks[t].calls) = s_launch
               /\ tasks[t].rc = 0
               /\ tasks[t].container_name = row.container_name
               /\ tasks'[t].pc = "done" /\ tasks'[t].ok = "true"
      ]_vars

\* C14 witness: a user with 2 credits was given a custom container by
\* !create and still has the 2 credits
CreatedForCreditedUser ==
    /\ \E t \in Tid : tasks[t].cmd = "create" /\ tasks[t].pc = "done" /\ tasks[t].ok = "true"
    /\ \E r \in vps : /\ r.plan = s_custom
                      /\ r.user_id \in DOMAIN users
                      /\ users[r.user_id] = 2

-----------------------------------------------------------------------------
(* The steps of create_container and delete_container *)

\* the calls of a create_container that ran to its end, in order
CreateCalls == <<s_launch, s_limits_memory, s_limits_cpu>>

\* the calls of a delete_container that ran to its end, in order
DeleteCalls == <<s_stop, s_delete>>

\* sequence a is the beginning of sequence b
IsPrefix(a, b) == Len(a) <= Len(b) /\ SubSeq(b, 1, Len(a)) = a

\* C15: create_container returns False only from its launch call, on a
\* nonzero code and with no limits call made; after a launch that returned 0
\* it makes the limits.memory and limits.cpu calls and returns True whatever
\* they return, and calls neither stop nor delete
CreateIsTwoStep ==
    /\ [](\A t \in Tid : tasks[t].cmd \in CreateCmds => IsPrefix(tasks[t].calls, CreateCalls))
    /\ [][\A t \in Tid :
            (StepOf(t) /\ tasks[t].cmd \in CreateCmds /\ tasks[t].calls # <<>>) =>
               IF tasks[t].pc = "launch"
               THEN \/ /\ tasks'[t].pc = "done"
                       /\ tasks'[t].ok = "false" /\ tasks'[t].rc # 0
                       /\ tasks[t].calls = <<s_launch>>
                    \/ /\ tasks'[t].pc = "limit_mem"
                       /\ tasks'[t].rc = 0
               ELSE \/ /\ tasks[t].pc = "limit_mem" /\ tasks'[t].pc = "limit_cpu"
                    \/ /\ tasks[t].pc = "limit_cpu" /\ tasks'[t].pc = "done"
                       /\ tasks[t].calls = CreateCalls
                       /\ tasks'[t].ok = "true" /\ tasks'[t].rc = 0
                       /\ vps \subseteq vps'
         ]_vars

\* C15 witness: a create returned True although one of its limits calls
\* returned a nonzero code
CreatedDespiteLimitFailure ==
    \E t \in Tid : /\ tasks[t].cmd \in CreateCmds /\ tasks[t].pc = "done"
                   /\ tasks[t].ok = "true" /\ tasks[t].dropped = 1

\* C16: delete_container calls stop --force and then delete, in this order,
\* and returns only after the delete call: True exactly when that call
\* returned 0, whatever the stop call returned
DeleteIsStopThenDelete ==
    /\ [](\A t \in Tid : IsDeleteFlow(tasks[t]) => IsPrefix(tasks[t].calls, DeleteCalls))
    /\ [][\A t \in Tid :
            (StepOf(t) /\ IsDeleteFlow(tasks[t]) /\ tasks[t].calls # <<>>) =>
               IF tasks[t].pc = "force_stop"
               THEN /\ tasks'[t].pc = "delete"
                    /\ tasks'[t].calls = DeleteCalls
               ELSE /\ tasks[t].pc = "delete" /\ tasks'[t].pc = "done"
                    /\ tasks[t].calls = DeleteCalls
                    /\ tasks'[t].ok \in {"true", "false"}
                    /\ (tasks'[t].ok = "true") <=> (tasks'[t].rc = 0)
         ]_vars

\* C16 witness: a delete returned True although its stop call returned a
\* nonzero code
DeletedDespiteStopFailure ==
    \E t \in Tid : /\ IsDeleteFlow(tasks[t]) /\ tasks[t].pc = "done"
                   /\ tasks[t].ok = "true" /\ tasks[t].dropped = 1

-----------------------------------------------------------------------------
(* Container names *)

\* C17: two rows of table vps whose commands took different strftime
\* suffixes have different container names
DifferentSuffixDifferentName ==
    \A r1, r2 \in vps :
        (r1.id # r2.id /\ named[r1.id] # named[r2.id])
        => r1.container_name # r2.container_name

\* C17 witness: two rows of the same user and plan, made in different seconds
SameOwnerPlanTwoSeconds ==
    \E r1, r2 \in vps :
        /\ r1.id # r2.id
        /\ r1.user_id = r2.user_id /\ r1.plan = r2.plan
        /\ named[r1.id] # named[r2.id]

\* C18: no two rows of table vps have the same container_name
NamesUnique ==
    \A r1, r2 \in vps : r1.id # r2.id => r1.container_name # r2.container_name

-----------------------------------------------------------------------------
(* Charged creates next to other commands *)

\* C19: when a charged create that succeeded debits, the balance of its
\* author is at least the price, and the debit lowers it by the price; stated
\* for the runs in which at most one admin command (the one that gave the
\* credits) has been handled and no balance is negative, so that only
\* !buywc commands run next to each other
FullPriceDebited ==
    [][\A t \in Tid :
         ( /\ BuywcEnds(t) /\ tasks'[t].ok = "true"
           /\ admin_ops <= 1 /\ BalancesNonNegative ) =>
            /\ get_credits(users, tasks[t].author) >= tasks[t].cost
            /\ get_credits(users', tasks[t].author)
                  = get_credits(users, tasks[t].author) - tasks[t].cost
      ]_vars

\* C20: the row a !buywc or !giveplan inserts holds the ram_mb and cpu_cores
\* that the command passed to create_container
RecordMatchesLimits ==
    [][\A t \in Tid :
         ( /\ tasks[t].cmd \in {"buywc", "giveplan"}
           /\ tasks[t].pc = "limit_cpu"
           /\ tasks'[t].pc = "done" ) =>
            \A row \in vps' \ vps :
                /\ row.ram_mb = tasks[t].ram_mb
                /\ row.cpu_cores = tasks[t].cpu_cores
      ]_vars

=============================================================================
